---- MODULE Spec2Model ----
(***************************************************************************)
(* hello_world.py: create_hello_world_file() and the __main__ block.       *)
(*                                                                         *)
(* Text is modelled as sequences of one-character strings, so that the     *)
(* formatting done by strftime and by the f-strings is computed character  *)
(* by character.  The environment is the wall clock, the working           *)
(* directory (a map from file names to file data) and standard output.     *)
(* File data is kept as text: the byte encoding of the text layer is not   *)
(* modelled.                                                               *)
(***************************************************************************)
EXTENDS Integers, Sequences, FiniteSets, TLC

(* ------------------------------ bounds --------------------------------- *)
\* Number of half-second clock ticks the environment may take.
MaxTicks == 2
\* Number of times the program is run in the same working directory.
MaxRuns == 2
\* Number of environment faults (failed open, failed flush, failed print).
MaxFaults == 2
\* A failed flush may stop after any number of characters; the model cuts
\* the data at k * Len \div MaxCuts for k \in 0..MaxCuts.
MaxCuts == 2

(* ------------------------------ text ----------------------------------- *)
Digits == <<"0", "1", "2", "3", "4", "5", "6", "7", "8", "9">>

Digit(d) == Digits[d + 1]

RECURSIVE Dec(_)
\* Decimal rendering of a natural number, no padding.
Dec(n) == IF n < 10 THEN <<Digit(n)>> ELSE Dec(n \div 10) \o <<Digit(n % 10)>>

\* Mutation of ZeroPad: no padding at all (as "%-m" would render).
NoPad(s, w) == s

RECURSIVE ZeroPad(_, _)
\* Left-pad with "0" to width w; longer text is left alone.
ZeroPad(s, w) == IF Len(s) >= w THEN s ELSE ZeroPad(<<"0">> \o s, w)

Take(s, k) == SubSeq(s, 1, k)

Drop(s, k) == SubSeq(s, k + 1, Len(s))

(* ------------------------------ clock ---------------------------------- *)
IsLeap(y) == (y % 4 = 0 /\ y % 100 # 0) \/ y % 400 = 0

DaysIn(y, m) ==
    IF m = 2 THEN (IF IsLeap(y) THEN 29 ELSE 28)
    ELSE IF m \in {4, 6, 9, 11} THEN 30 ELSE 31

Moment(y, mo, d, h, mi, s, us) ==
    [year |-> y, month |-> mo, day |-> d, hour |-> h, minute |-> mi,
     second |-> s, microsecond |-> us]

\* The wall clock half a second later, with every carry of the calendar.
NextMoment(t) ==
    IF t.microsecond < 500000 THEN [t EXCEPT !.microsecond = 500000]
    ELSE IF t.second < 59 THEN [t EXCEPT !.microsecond = 0, !.second = @ + 1]
    ELSE IF t.minute < 59
        THEN [t EXCEPT !.microsecond = 0, !.second = 0, !.minute = @ + 1]
    ELSE IF t.hour < 23
        THEN [t EXCEPT !.microsecond = 0, !.second = 0, !.minute = 0,
                       !.hour = @ + 1]
    ELSE IF t.day < DaysIn(t.year, t.month)
        THEN [t EXCEPT !.microsecond = 0, !.second = 0, !.minute = 0,
                       !.hour = 0, !.day = @ + 1]
    ELSE IF t.month < 12
        THEN [t EXCEPT !.microsecond = 0, !.second = 0, !.minute = 0,
                       !.hour = 0, !.day = 1, !.month = @ + 1]
    ELSE [t EXCEPT !.microsecond = 0, !.second = 0, !.minute = 0,
                   !.hour = 0, !.day = 1, !.month = 1, !.year = @ + 1]

\* Wall-clock readings the runs start from: the documented example, the
\* last half second of a year, and the last half second of 28 February in
\* a leap year.
StartMoments ==
    { Moment(2024, 3, 15, 10, 30, 45, 0),
      Moment(2024, 12, 31, 23, 59, 59, 500000),
      Moment(2024, 2, 28, 23, 59, 59, 500000) }

(* ------------------------------ strftime ------------------------------- *)
\* One conversion directive of strftime.
Directive(t, c) ==
    CASE c = "Y" -> ZeroPad(Dec(t.year), 4)
      [] c = "m" -> ZeroPad(Dec(t.month), 2)
      [] c = "d" -> ZeroPad(Dec(t.day), 2)
      [] c = "H" -> ZeroPad(Dec(t.hour), 2)
      [] c = "M" -> ZeroPad(Dec(t.minute), 2)
      [] c = "S" -> ZeroPad(Dec(t.second), 2)
      [] OTHER -> <<"%", c>>

RECURSIVE strftime(_, _)
\* datetime.strftime: directives are replaced, every other character is
\* copied.  The microsecond of t is read by no directive used here.
strftime(t, fmt) ==
    IF fmt = <<>> THEN <<>>
    ELSE IF Head(fmt) = "%" /\ Len(fmt) >= 2
        THEN Directive(t, fmt[2]) \o strftime(t, Drop(fmt, 2))
    ELSE <<Head(fmt)>> \o strftime(t, Tail(fmt))

\* "%Y%m%d_%H%M%S"
NameFormat ==
    <<"%", "Y", "%", "m", "%", "d", "_", "%", "H", "%", "M", "%", "S">>

\* "%Y-%m-%d %H:%M:%S"
BodyFormat ==
    <<"%", "Y", "-", "%", "m", "-", "%", "d", " ",
      "%", "H", ":", "%", "M", ":", "%", "S">>

\* Mutation of TimestampOf: the microseconds are appended (as "%f" would).
TimestampOfMicro(t) == strftime(t, NameFormat) \o Dec(t.microsecond)

\* timestamp = datetime.now().strftime("%Y%m%d_%H%M%S")
TimestampOf(t) == strftime(t, NameFormat)

\* f"hello_world_{timestamp}.md"
FilenameOf(ts) ==
    <<"h", "e", "l", "l", "o", "_", "w", "o", "r", "l", "d", "_">>
    \o ts \o <<".", "m", "d">>

\* Mutation of ContentOf: the timestamp is rendered in the filename's
\* format.
ContentOfNameStamp(t) ==
    <<"#", " ", "H", "e", "l", "l", "o", " ", "W", "o", "r", "l", "d", "\n",
      "\n",
      "G", "e", "n", "e", "r", "a", "t", "e", "d", " ", "a", "t", ":", " ">>
    \o strftime(t, NameFormat) \o
    <<"\n",
      "\n",
      "*", "*", "M", "e", "s", "s", "a", "g", "e", ":", "*", "*", " ",
      "H", "e", "l", "l", "o", " ", "W", "o", "r", "l", "d", "!", "\n">>

\* The triple-quoted f-string of lines 11-16, given the second clock reading.
ContentOf(t) ==
    <<"#", " ", "H", "e", "l", "l", "o", " ", "W", "o", "r", "l", "d", "\n",
      "\n",
      "G", "e", "n", "e", "r", "a", "t", "e", "d", " ", "a", "t", ":", " ">>
    \o strftime(t, BodyFormat) \o
    <<"\n",
      "\n",
      "*", "*", "M", "e", "s", "s", "a", "g", "e", ":", "*", "*", " ",
      "H", "e", "l", "l", "o", " ", "W", "o", "r", "l", "d", "!", "\n">>

\* Mutation of PrintedLine: print(created_file), without the label.
PrintedBare(name) == name \o <<"\n">>

\* f"Created file: {created_file}", and the newline print() appends.
PrintedLine(name) ==
    <<"C", "r", "e", "a", "t", "e", "d", " ", "f", "i", "l", "e", ":", " ">>
    \o name \o <<"\n">>

(* ------------------------------ files ---------------------------------- *)
\* The working directory is a function from the names of the files that
\* exist to their data.
\* Mutation of OpenW: open(name, 'a'), which keeps the data of an existing
\* file and writes after it.
OpenAppend(dir, name) ==
    [dir |-> [n \in DOMAIN dir \cup {name} |->
                 IF n \in DOMAIN dir THEN dir[n] ELSE <<>>],
     handle |-> [name |-> name,
                 pos |-> IF name \in DOMAIN dir THEN Len(dir[name]) ELSE 0,
                 buf |-> <<>>]]

\* Mutation of OpenW: the directory is emptied of every other file before
\* the new one is created.
OpenWipes(dir, name) ==
    [dir |-> [n \in {name} |-> <<>>],
     handle |-> [name |-> name, pos |-> 0, buf |-> <<>>]]

\* open(name, 'w'): the file is created if it is absent and truncated to
\* nothing if it exists; the handle returned is positioned at 0 with
\* nothing buffered.
OpenW(dir, name) ==
    [dir |-> [n \in DOMAIN dir \cup {name} |->
                 IF n = name THEN <<>> ELSE dir[n]],
     handle |-> [name |-> name, pos |-> 0, buf |-> <<>>]]

\* f.write(text): the text goes to the handle's buffer.
Buffered(h, text) == [h EXCEPT !.buf = @ \o text]

\* Data of a file after `data` is written at offset pos.
WriteAt(old, pos, data) ==
    Take(old, pos) \o data \o Drop(old, pos + Len(data))

\* Mutation of Flushed: the buffered text never reaches the file.
FlushedLost(dir, h, k) == dir

\* The directory after the first k buffered characters of handle h reach
\* the file.
Flushed(dir, h, k) ==
    [dir EXCEPT ![h.name] = WriteAt(@, h.pos, Take(h.buf, k))]

\* The handle the with block holds: the one opened last.
Held(hs) == hs[Len(hs)]

\* Mutation of Released: no with block and no close(), the handle stays
\* open.
ReleasedLeak(hs) == hs

\* Leaving the with block closes the handle it holds, whatever happened
\* inside: the handle leaves the table of open handles.
Released(hs) == Take(hs, Len(hs) - 1)

\* Lengths at which a failed flush may stop.
Cuts(n) == { (k * n) \div MaxCuts : k \in 0..MaxCuts }

StaleData == <<"o", "l", "d", " ", "n", "o", "t", "e", "s", "\n">>

OtherName == <<"n", "o", "t", "e", "s", ".", "m", "d">>

\* Directories the first run may find: empty, another file only, or also a
\* stale file under the name of the starting second.
StartDirs(t) ==
    { [n \in {} |-> StaleData],
      [n \in {OtherName} |-> StaleData],
      [n \in {OtherName, FilenameOf(TimestampOf(t))} |-> StaleData] }

(* ------------------------------ state ---------------------------------- *)
VARIABLES
    clock,        \* the wall clock
    ticks,        \* ticks taken so far
    faults,       \* environment faults so far
    runs,         \* program runs started so far
    pc,           \* position of the run in the program
    t1,           \* value of datetime.now() on line 8
    t2,           \* value of datetime.now() on line 13
    filename,     \* local of create_hello_world_file
    content,      \* local of create_hello_world_file
    f,            \* the open file handles of the process
    opened,       \* number of open() calls of the run
    written,      \* number of f.write() calls of the run
    reads,        \* number of clock reads of the run
    raised,       \* << >>, or <<the call whose exception ended the run>>
    created_file, \* module variable of line 24: << >> until assigned
    stdout,       \* text printed by the run
    exit,         \* << >> while running, <<status>> once the process ended
    fs,           \* the working directory
    fs0,          \* the working directory when the run started
    log           \* successful invocations: run, t1, name, content

vars == <<clock, ticks, faults, runs, pc, t1, t2, filename, content, f,
          opened, written, reads, raised, created_file, stdout, exit, fs,
          fs0, log>>

locals == <<t1, t2, filename, content>>

counts == <<opened, written, reads>>

NoMoment == <<>>

Init ==
    /\ clock \in StartMoments
    /\ ticks = 0
    /\ faults = 0
    /\ runs = 0
    /\ pc = "idle"
    /\ t1 = NoMoment
    /\ t2 = NoMoment
    /\ filename = <<>>
    /\ content = <<>>
    /\ f = <<>>
    /\ opened = 0
    /\ written = 0
    /\ reads = 0
    /\ raised = <<>>
    /\ created_file = <<>>
    /\ stdout = <<>>
    /\ exit = <<>>
    /\ fs \in StartDirs(clock)
    /\ fs0 = fs
    /\ log = {}

(* ------------------------------ actions -------------------------------- *)
\* The environment: time passes.
Tick ==
    /\ ticks < MaxTicks
    /\ clock' = NextMoment(clock)
    /\ ticks' = ticks + 1
    /\ UNCHANGED <<faults, runs, pc, locals, f, counts, raised, created_file,
                   stdout, exit, fs, fs0, log>>

\* The program is started (again): a fresh process in the same directory.
\* Lines 23-24: __main__ calls create_hello_world_file().
StartProgram ==
    /\ pc \in {"idle", "exited"}
    /\ runs < MaxRuns
    /\ runs' = runs + 1
    /\ pc' = "line8"
    /\ t1' = NoMoment
    /\ t2' = NoMoment
    /\ filename' = <<>>
    /\ content' = <<>>
    /\ f' = <<>>
    /\ opened' = 0
    /\ written' = 0
    /\ reads' = 0
    /\ raised' = <<>>
    /\ created_file' = <<>>
    /\ stdout' = <<>>
    /\ exit' = <<>>
    /\ fs0' = fs
    /\ UNCHANGED <<clock, ticks, faults, fs, log>>

\* Lines 8-9: first clock read, timestamp and filename.
ReadNameStamp ==
    /\ pc = "line8"
    /\ t1' = clock
    /\ reads' = reads + 1
    /\ filename' = FilenameOf(TimestampOf(clock))
    /\ pc' = "line11"
    /\ UNCHANGED <<clock, ticks, faults, runs, t2, content, f, opened,
                   written, raised, created_file, stdout, exit, fs, fs0, log>>

\* Mutation of BuildContent: the first clock reading is reused, the clock
\* is not read again.
BuildContentOneRead ==
    /\ pc = "line11"
    /\ t2' = t1
    /\ content' = ContentOf(t1)
    /\ pc' = "line18"
    /\ UNCHANGED <<clock, ticks, faults, runs, t1, filename, f, counts, raised,
                   created_file, stdout, exit, fs, fs0, log>>

\* Lines 11-16: second clock read, content.
BuildContent ==
    /\ pc = "line11"
    /\ t2' = clock
    /\ reads' = reads + 1
    /\ content' = ContentOf(clock)
    /\ pc' = "line18"
    /\ UNCHANGED <<clock, ticks, faults, runs, t1, filename, f, opened,
                   written, raised, created_file, stdout, exit, fs, fs0, log>>

\* Line 18: open(filename, 'w') succeeds.
OpenFile ==
    /\ pc = "line18"
    /\ fs' = OpenW(fs, filename).dir
    /\ f' = Append(f, OpenW(fs, filename).handle)
    /\ opened' = opened + 1
    /\ pc' = "line19"
    /\ UNCHANGED <<clock, ticks, faults, runs, locals, written, reads, raised,
                   created_file, stdout, exit, fs0, log>>

\* Mutation of OpenFails: the OSError is caught and ignored, the function
\* goes on to return the filename.
OpenFailsSwallowed ==
    /\ pc = "line18"
    /\ faults < MaxFaults
    /\ faults' = faults + 1
    /\ opened' = opened + 1
    /\ pc' = "line21"
    /\ UNCHANGED <<clock, ticks, runs, locals, f, written, reads, raised,
                   created_file, stdout, exit, fs, fs0, log>>

\* Line 18: open(filename, 'w') raises OSError (directory or file not
\* writable).  Nothing catches it: traceback, exit status 1.
OpenFails ==
    /\ pc = "line18"
    /\ faults < MaxFaults
    /\ faults' = faults + 1
    /\ opened' = opened + 1
    /\ raised' = <<"open">>
    /\ pc' = "exited"
    /\ exit' = <<1>>
    /\ UNCHANGED <<clock, ticks, runs, locals, f, written, reads,
                   created_file, stdout, fs, fs0, log>>

\* Line 19: f.write(content) puts the text in the handle's buffer.
WriteContent ==
    /\ pc = "line19"
    /\ f' = [f EXCEPT ![Len(f)] = Buffered(@, content)]
    /\ written' = written + 1
    /\ pc' = "with_exit"
    /\ UNCHANGED <<clock, ticks, faults, runs, locals, opened, reads, raised,
                   created_file, stdout, exit, fs, fs0, log>>

\* End of the with block: the buffer is flushed to the file and the handle
\* is closed.
CloseFile ==
    /\ pc = "with_exit"
    /\ fs' = Flushed(fs, Held(f), Len(Held(f).buf))
    /\ f' = Released(f)
    /\ pc' = "line21"
    /\ UNCHANGED <<clock, ticks, faults, runs, locals, counts, raised,
                   created_file, stdout, exit, fs0, log>>

\* End of the with block, the flush fails (disk full, I/O error) after k
\* characters: the handle is closed all the same and OSError propagates out
\* of the function and out of the program.
CloseFails ==
    /\ pc = "with_exit"
    /\ faults < MaxFaults
    /\ \E k \in Cuts(Len(Held(f).buf)) : fs' = Flushed(fs, Held(f), k)
    /\ faults' = faults + 1
    /\ f' = Released(f)
    /\ raised' = <<"write">>
    /\ pc' = "exited"
    /\ exit' = <<1>>
    /\ UNCHANGED <<clock, ticks, runs, locals, counts, created_file, stdout,
                   fs0, log>>

\* Lines 21 and 24: return filename; created_file = <the value returned>.
ReturnFilename ==
    /\ pc = "line21"
    /\ created_file' = filename
    /\ log' = log \cup {[run |-> runs, t1 |-> t1, name |-> filename,
                         content |-> content]}
    /\ pc' = "line25"
    /\ UNCHANGED <<clock, ticks, faults, runs, locals, f, counts, raised,
                   stdout, exit, fs, fs0>>

\* Line 25: print(f"Created file: {created_file}"), then the script ends.
PrintCreated ==
    /\ pc = "line25"
    /\ stdout' = stdout \o PrintedLine(created_file)
    /\ pc' = "exited"
    /\ exit' = <<0>>
    /\ UNCHANGED <<clock, ticks, faults, runs, locals, f, counts, raised,
                   created_file, fs, fs0, log>>

\* Line 25: standard output cannot be written (closed pipe, full disk): the
\* interpreter ends with status 1 (exception in print) or 120 (failed flush
\* at shutdown).
PrintFails ==
    /\ pc = "line25"
    /\ faults < MaxFaults
    /\ faults' = faults + 1
    /\ pc' = "exited"
    /\ \E st \in {1, 120} : exit' = <<st>>
    /\ raised' = <<"print">>
    /\ UNCHANGED <<clock, ticks, runs, locals, f, counts, created_file,
                   stdout, fs, fs0, log>>

Next ==
    \/ Tick
    \/ StartProgram
    \/ ReadNameStamp
    \/ BuildContent
    \/ OpenFile
    \/ OpenFails
    \/ WriteContent
    \/ CloseFile
    \/ CloseFails
    \/ ReturnFilename
    \/ PrintCreated
    \/ PrintFails

Spec == Init /\ [][Next]_vars

(* ------------------------- vocabulary of the properties ---------------- *)
IsDigit(c) == \E d \in 1..Len(Digits) : Digits[d] = c

DigitVal(c) == (CHOOSE d \in 1..Len(Digits) : Digits[d] = c) - 1

AllDigits(s) == \A i \in 1..Len(s) : IsDigit(s[i])

RECURSIVE Num(_)
\* The number a sequence of digits denotes.
Num(s) == IF s = <<>> THEN 0
          ELSE 10 * Num(Take(s, Len(s) - 1)) + DigitVal(s[Len(s)])

\* Field(s, i, n): the n characters of s from position i.
Field(s, i, n) == SubSeq(s, i, i + n - 1)

\* s holds exactly n digits from position i and they denote v.
Shows(s, i, n, v) ==
    /\ Len(s) >= i + n - 1
    /\ AllDigits(Field(s, i, n))
    /\ Num(Field(s, i, n)) = v

IsPrefix(p, s) == Len(p) <= Len(s) /\ Take(s, Len(p)) = p

SameSecond(a, b) ==
    /\ a.year = b.year /\ a.month = b.month /\ a.day = b.day
    /\ a.hour = b.hour /\ a.minute = b.minute /\ a.second = b.second

RECURSIVE SplitLines(_)
\* The newline-terminated lines of a text; text after the last newline is
\* a last, unterminated line.
SplitLines(s) ==
    IF s = <<>> THEN <<>>
    ELSE IF \E i \in 1..Len(s) : s[i] = "\n"
        THEN LET i == CHOOSE j \in 1..Len(s) :
                          s[j] = "\n" /\ \A k \in 1..(j - 1) : s[k] # "\n"
             IN  <<Take(s, i - 1)>> \o SplitLines(Drop(s, i))
    ELSE <<s>>

Newlines(s) == Cardinality({i \in 1..Len(s) : s[i] = "\n"})

\* The function has returned normally: line 24 holds its value.
Returned == created_file # <<>>

HelloPrefix == <<"h", "e", "l", "l", "o", "_", "w", "o", "r", "l", "d", "_">>

ExampleMoment == Moment(2024, 3, 15, 10, 30, 45, 0)

ExampleName ==
    <<"h", "e", "l", "l", "o", "_", "w", "o", "r", "l", "d", "_",
      "2", "0", "2", "4", "0", "3", "1", "5", "_",
      "1", "0", "3", "0", "4", "5", ".", "m", "d">>

(* ------------------------------ C1 ------------------------------------- *)
\* C1: whenever create_hello_world_file() has returned normally, a file
\* named exactly as the returned filename exists and its whole data is the
\* content string built in that invocation, whatever the clock read and
\* whatever the directory held before.
C1_FileHoldsContent ==
    Returned =>
        /\ created_file \in DOMAIN fs
        /\ fs[created_file] = content
        /\ content # <<>>

\* A normal return over a stale file of the same name.
C1_Witness ==
    /\ pc = "line25"
    /\ created_file \in DOMAIN fs0
    /\ fs0[created_file] = StaleData

(* ------------------------------ C2 ------------------------------------- *)
\* C2: the returned filename is "hello_world_" + YYYYMMDD(T1) + "_" +
\* HHMMSS(T1) + ".md" with zero-padded fields: 30 characters, 8 digits, an
\* underscore, 6 digits, and the digits denote the fields of the first
\* clock reading; 2024-03-15 10:30:45 gives hello_world_20240315_103045.md.
C2_FilenameFormat ==
    Returned =>
        /\ Len(created_file) = 30
        /\ Field(created_file, 1, 12) = HelloPrefix
        /\ Shows(created_file, 13, 4, t1.year)
        /\ Shows(created_file, 17, 2, t1.month)
        /\ Shows(created_file, 19, 2, t1.day)
        /\ created_file[21] = "_"
        /\ Shows(created_file, 22, 2, t1.hour)
        /\ Shows(created_file, 24, 2, t1.minute)
        /\ Shows(created_file, 26, 2, t1.second)
        /\ Field(created_file, 28, 3) = <<".", "m", "d">>
        /\ (SameSecond(t1, ExampleMoment) => created_file = ExampleName)

\* A return whose first clock reading has one-digit month, day, hour,
\* minute and second fields.
C2_Witness ==
    /\ Returned
    /\ t1.month < 10 /\ t1.day < 10 /\ t1.hour < 10
    /\ t1.minute < 10 /\ t1.second < 10

(* ------------------------------ C3 ------------------------------------- *)
HeadingLine == <<"#", " ", "H", "e", "l", "l", "o", " ", "W", "o", "r", "l", "d">>

GeneratedAt == <<"G", "e", "n", "e", "r", "a", "t", "e", "d", " ", "a", "t", ":", " ">>

MessageLine ==
    <<"*", "*", "M", "e", "s", "s", "a", "g", "e", ":", "*", "*", " ",
      "H", "e", "l", "l", "o", " ", "W", "o", "r", "l", "d", "!">>

\* s is t rendered as YYYY-MM-DD HH:MM:SS.
IsBodyStamp(s, t) ==
    /\ Len(s) = 19
    /\ Shows(s, 1, 4, t.year)
    /\ s[5] = "-"
    /\ Shows(s, 6, 2, t.month)
    /\ s[8] = "-"
    /\ Shows(s, 9, 2, t.day)
    /\ s[11] = " "
    /\ Shows(s, 12, 2, t.hour)
    /\ s[14] = ":"
    /\ Shows(s, 15, 2, t.minute)
    /\ s[17] = ":"
    /\ Shows(s, 18, 2, t.second)

\* C3: once built, the content is exactly five newline-terminated lines:
\* "# Hello World", an empty line, "Generated at: " followed by the second
\* clock reading as YYYY-MM-DD HH:MM:SS, an empty line, and
\* "**Message:** Hello World!"; only the timestamp varies.
C3_ContentTemplate ==
    content # <<>> =>
        LET ls == SplitLines(content) IN
        /\ content[Len(content)] = "\n"
        /\ Len(ls) = 5
        /\ ls[1] = HeadingLine
        /\ ls[2] = <<>>
        /\ IsPrefix(GeneratedAt, ls[3])
        /\ IsBodyStamp(Drop(ls[3], Len(GeneratedAt)), t2)
        /\ ls[4] = <<>>
        /\ ls[5] = MessageLine

\* The content of a run that read the first second of 2025 is in the file.
C3_Witness ==
    /\ Returned
    /\ t2.year = 2025 /\ t2.month = 1 /\ t2.day = 1 /\ t2.hour = 0
    /\ fs[created_file] = content

(* ------------------------------ C4 ------------------------------------- *)
\* An earlier successful invocation whose filename clock reading fell in
\* the same calendar second as this run's.
EarlierSameSecond(e) == e \in log /\ e.run < runs /\ SameSecond(e.t1, t1)

\* C4: when this invocation has returned and an earlier successful one read
\* the same calendar second for its filename, both returned the same
\* filename, the file holds this invocation's content only (not the earlier
\* content followed by it), and the directory has no more files than when
\* this invocation started.
C4_SameSecondOverwrites ==
    Returned =>
        \A e \in log :
            EarlierSameSecond(e) =>
                /\ e.name = created_file
                /\ fs[created_file] = content
                /\ fs[created_file] # e.content \o content
                /\ DOMAIN fs = DOMAIN fs0

\* A second return in the same second as an earlier one, with another
\* content (the clock ticked into the next second before the second read).
C4_Witness ==
    /\ pc = "line25"
    /\ \E e \in log : EarlierSameSecond(e) /\ e.content # content

(* ------------------------------ C5 ------------------------------------- *)
\* The run ended because open() or the write to the file raised.
WriteFailed == raised = <<"open">> \/ raised = <<"write">>

\* C5 as stated: in every run where creating or writing the file fails,
\* the file named filename either holds the whole new content or is
\* exactly as it was before the invocation (absent, or its old data).
C5_AllOrNothing ==
    WriteFailed =>
        \/ filename \in DOMAIN fs /\ fs[filename] = content
        \/ filename \notin DOMAIN fs0 /\ filename \notin DOMAIN fs
        \/ /\ filename \in DOMAIN fs0
           /\ filename \in DOMAIN fs
           /\ fs[filename] = fs0[filename]

\* C5 as amended: when open() fails the directory is exactly as it was
\* before the invocation; when the write fails after a successful open the
\* file exists and holds a prefix of the new content (possibly empty,
\* possibly the whole of it) and nothing of its previous data.
C5_UnchangedOrPrefix ==
    /\ raised = <<"open">> => fs = fs0
    /\ raised = <<"write">> =>
           /\ filename \in DOMAIN fs
           /\ IsPrefix(fs[filename], content)

\* A failed write that left a truncated file where a stale one was.
C5_Witness ==
    /\ raised = <<"write">>
    /\ filename \in DOMAIN fs0
    /\ fs0[filename] = StaleData
    /\ Len(fs[filename]) > 0
    /\ Len(fs[filename]) < Len(content)

(* ------------------------------ C6 ------------------------------------- *)
\* C6: when open() or the write fails, the run is over with one open() and
\* at most one write() made, no filename returned, nothing printed, and a
\* nonzero exit status; exit status 0 occurs only when the one open and the
\* one write succeeded and the file holds the content.
C6_FailurePropagates ==
    /\ WriteFailed =>
           /\ pc = "exited"
           /\ opened = 1
           /\ written <= 1
           /\ ~Returned
           /\ stdout = <<>>
           /\ Len(exit) = 1
           /\ exit[1] # 0
    /\ exit = <<0>> =>
           /\ raised = <<>>
           /\ opened = 1
           /\ written = 1
           /\ created_file = filename
           /\ filename \in DOMAIN fs
           /\ fs[filename] = content

\* A run ended by a failed write, after one open and one write.
C6_Witness ==
    /\ raised = <<"write">>
    /\ opened = 1
    /\ written = 1
    /\ exit = <<1>>

(* ------------------------------ C7 ------------------------------------- *)
CreatedPrefix ==
    <<"C", "r", "e", "a", "t", "e", "d", " ", "f", "i", "l", "e", ":", " ">>

\* C7: a run that ended with status 0 printed exactly one line, "Created
\* file: " followed by the returned filename; and whenever something has
\* been printed, the handle is released and the file of the printed name
\* holds the whole content.
C7_OneLineAfterWrite ==
    /\ exit = <<0>> =>
           /\ Returned
           /\ stdout = CreatedPrefix \o created_file \o <<"\n">>
           /\ Newlines(stdout) = 1
    /\ stdout # <<>> =>
           /\ f = <<>>
           /\ created_file = filename
           /\ filename \in DOMAIN fs
           /\ fs[filename] = content
           /\ Drop(Take(stdout, Len(stdout) - 1), Len(CreatedPrefix))
                  \in DOMAIN fs

\* A successful second run: its output holds its own line only.
C7_Witness ==
    /\ exit = <<0>>
    /\ runs = 2
    /\ Len(stdout) = Len(CreatedPrefix) + 31

(* ------------------------------ C8 ------------------------------------- *)
\* C8: at most one handle is open at any point, a handle is open only
\* inside the with block, and once the invocation has ended, by return or
\* by a propagating failure, no handle is open.
C8_HandleReleased ==
    /\ Len(f) <= 1
    /\ f # <<>> => pc \in {"line19", "with_exit"}
    /\ pc \in {"line21", "line25", "exited"} => f = <<>>

\* The invocation ended by a write failure after the handle was opened,
\* and the handle is closed.
C8_Witness ==
    /\ pc = "exited"
    /\ raised = <<"write">>
    /\ opened = 1
    /\ f = <<>>

(* ------------------------------ C9 ------------------------------------- *)
\* The 14 digits of the timestamp in a filename.
NameStamp(name) == Field(name, 13, 8) \o Field(name, 22, 6)

\* The 14 digits of the timestamp in the "Generated at:" line of a content.
BodyStamp(text) ==
    LET s == Drop(SplitLines(text)[3], Len(GeneratedAt))
    IN  Field(s, 1, 4) \o Field(s, 6, 2) \o Field(s, 9, 2)
        \o Field(s, 12, 2) \o Field(s, 15, 2) \o Field(s, 18, 2)

\* C9: the clock is read at most twice; after the first read only the
\* filename exists; once the content is built the clock has been read
\* exactly twice, and the filename and the content show the same second
\* exactly when the two readings fall in the same calendar second.
C9_TwoClockReads ==
    /\ reads <= 2
    /\ reads = 1 =>
           /\ t1 # NoMoment /\ filename # <<>>
           /\ t2 = NoMoment /\ content = <<>>
    /\ content # <<>> =>
           /\ reads = 2
           /\ t1 # NoMoment /\ t2 # NoMoment
           /\ (NameStamp(filename) = BodyStamp(content)) <=> SameSecond(t1, t2)
    /\ pc \in {"line21", "line25", "exited"} => reads = 2

\* A successful run in which the clock ticked into the next second between
\* the reads: the file's name and the file's data show different seconds.
C9_Witness ==
    /\ pc = "line25"
    /\ ~SameSecond(t1, t2)
    /\ NameStamp(created_file) # BodyStamp(fs[created_file])

(* ------------------------------ C10 ------------------------------------ *)
\* C10: at every point of a run, successful or failed, every file that
\* existed when the run started still exists, every file other than the one
\* named filename has the data it had then, and the only file that may
\* have appeared is the one named filename.
C10_OnlyOneFileChanges ==
    /\ \A n \in DOMAIN fs0 :
           /\ n \in DOMAIN fs
           /\ n # filename => fs[n] = fs0[n]
    /\ \A n \in DOMAIN fs : n \notin DOMAIN fs0 => n = filename

\* A failed run next to the file of an earlier run made in another second
\* and next to an unrelated file, both intact.
C10_Witness ==
    /\ raised = <<"write">>
    /\ fs[filename] # content
    /\ OtherName \in DOMAIN fs
    /\ fs[OtherName] = StaleData
    /\ \E e \in log :
           /\ e.name # filename
           /\ e.name \in DOMAIN fs
           /\ fs[e.name] = e.content

====
